---- MODULE Spec2Model ----
(***************************************************************************)
(* Model of the playground engine of GistPad, src/commands/playground.ts:  *)
(* the manifest resolver, the transpiler adapters, and the session that    *)
(* openPlayground builds (its listeners, debounced dispatcher, preview     *)
(* panel, auto-save timer and disposal handler).                           *)
(*                                                                         *)
(* Texts are records.  A text that JSON.parse accepts is                   *)
(* [json |-> object, indent |-> 0 or 2]; any other text is [t |-> string]. *)
(* An object is a record whose fields are the keys it has.  The output of  *)
(* a preprocessor is [t |-> source, by |-> engine], never the source text. *)
(***************************************************************************)
EXTENDS Integers, Sequences, FiniteSets, TLC

\* ------------------------------------------------------------------ bounds
MaxSessions == 2    \* openPlayground calls in a run of Spec
MaxEdits == 1       \* document change events in a run of Spec
MaxSaves == 1       \* document save events in a run of Spec
SyncEdits == 2      \* document change events in a run of SpecSync

\* --------------------------------------------------------------- constants
PLAYGROUND_FILE == "playground.json"

MARKUP_EXTENSIONS == <<".html", ".pug">>
STYLESHEET_EXTENSIONS == <<".css", ".less", ".sass", ".scss">>
REACT_EXTENSIONS == <<".babel", ".jsx", ".tsx">>
MODULE_EXTENSIONS == <<".mjs">>
TYPESCRIPT_EXTENSIONS == <<".ts">> \o REACT_EXTENSIONS
SCRIPT_EXTENSIONS == <<".js">> \o MODULE_EXTENSIONS \o TYPESCRIPT_EXTENSIONS

REACT_SCRIPTS == <<"react", "react-dom">>

MARKUP_BASE_NAME == "index"
SCRIPT_BASE_NAME == "script"
STYLESHEET_BASE_NAME == "style"

PlaygroundFileType == {"markup", "script", "stylesheet", "manifest"}

Range(f) == {f[i] : i \in DOMAIN f}

Includes(seq, x) == \E i \in DOMAIN seq : seq[i] = x

\* the extension table and base name that both getGistFileOfType and
\* isPlaygroundDocument pick in their switch (stylesheet is the default arm)
ExtensionsOf(fileType) ==
    CASE fileType = "markup" -> MARKUP_EXTENSIONS
      [] fileType = "script" -> SCRIPT_EXTENSIONS
      [] OTHER -> STYLESHEET_EXTENSIONS

BaseNameOf(fileType) ==
    CASE fileType = "markup" -> MARKUP_BASE_NAME
      [] fileType = "script" -> SCRIPT_BASE_NAME
      [] OTHER -> STYLESHEET_BASE_NAME

\* extensions.map((extension) => `${fileBaseName}${extension}`)
fileCandidates(fileType) ==
    [i \in DOMAIN ExtensionsOf(fileType) |->
        BaseNameOf(fileType) \o ExtensionsOf(fileType)[i]]

AllExtensions == Range(MARKUP_EXTENSIONS) \cup Range(STYLESHEET_EXTENSIONS)
                   \cup Range(SCRIPT_EXTENSIONS)

BaseNames == {MARKUP_BASE_NAME, SCRIPT_BASE_NAME, STYLESHEET_BASE_NAME}

\* path.extname, on the file names of the model
extname(fileName) ==
    IF fileName = PLAYGROUND_FILE THEN ".json"
    ELSE IF \E b \in BaseNames, e \in AllExtensions : fileName = b \o e
         THEN CHOOSE e \in AllExtensions : \E b \in BaseNames : fileName = b \o e
         ELSE ""

\* ------------------------------------------------------------ gist.files
\* gist.files is an object: its keys keep their insertion order.  It is a
\* sequence of [filename, content] with no file name twice.
Keys(gistFiles) == [i \in DOMAIN gistFiles |-> gistFiles[i].filename]

HasFile(gistFiles, name) == \E i \in DOMAIN gistFiles : gistFiles[i].filename = name

FileOf(gistFiles, name) ==
    gistFiles[CHOOSE i \in DOMAIN gistFiles : gistFiles[i].filename = name]

\* gist.files[name] = file : in place when the key exists, appended otherwise
PutFile(gistFiles, name, content) ==
    IF HasFile(gistFiles, name)
    THEN [i \in DOMAIN gistFiles |->
            IF gistFiles[i].filename = name
            THEN [filename |-> name, content |-> content]
            ELSE gistFiles[i]]
    ELSE Append(gistFiles, [filename |-> name, content |-> content])

\* delete gist.files[name]
DeleteFile(gistFiles, name) ==
    SelectSeq(gistFiles, LAMBDA f : f.filename # name)

\* Object.keys(gist.files).find((file) => fileCandidates.includes(file))
getGistFileOfType(gistFiles, fileType) ==
    LET hits == {i \in DOMAIN gistFiles :
                    Includes(fileCandidates(fileType), gistFiles[i].filename)}
    IN  IF hits = {} THEN "undefined"
        ELSE gistFiles[CHOOSE i \in hits : \A j \in hits : i <= j].filename

\* ------------------------------------------------------------- documents
\* a TextDocument is known by its uri: the gist id (authority) and file name
Doc(g, name) == [authority |-> g, file |-> name]

NoDoc == [authority |-> "", file |-> ""]

isPlaygroundDocument(gistId, document, fileType) ==
    /\ gistId = document.authority
    /\ Includes(fileCandidates(fileType), document.file)

isPlaygroundManifestFile(gistId, document) ==
    /\ gistId = document.authority
    /\ document.file = PLAYGROUND_FILE

\* ----------------------------------------------------------------- texts
Blank == [t |-> ""]

IsJson(content) == "json" \in DOMAIN content

\* content.trim() === ""
IsBlank(content) == ~IsJson(content) /\ content.t \in {"", " "}

\* the source texts on which pug, sass and less throw
Malformed(content) == ~IsJson(content) /\ content.t = "!"

NullContent == [null |-> TRUE]

Rendered(content, engine) ==
    IF IsJson(content) THEN [t |-> "json", by |-> engine]
    ELSE [t |-> content.t, by |-> engine]

\* -------------------------------------------------------------- manifest
isReactFile(fileName) == Includes(REACT_EXTENSIONS, extname(fileName))

includesReactFiles(gistFiles) ==
    \E i \in DOMAIN gistFiles : isReactFile(gistFiles[i].filename)

\* REACT_SCRIPTS.every((script) => scripts.includes(script))
includesReactScripts(scripts) ==
    \A i \in DOMAIN REACT_SCRIPTS : Includes(scripts, REACT_SCRIPTS[i])

\* [...new Set(scripts)] : the first occurrence of every entry, in order
RECURSIVE Dedupe(_)
Dedupe(seq) ==
    IF seq = <<>> THEN <<>>
    ELSE LET front == Dedupe(SubSeq(seq, 1, Len(seq) - 1))
             last == seq[Len(seq)]
         IN  IF Includes(front, last) THEN front ELSE Append(front, last)

\* JSON.stringify(parsedManifest, null, 2)
JSON_stringify(object) == [json |-> object, indent |-> 2]

\* an injection that puts the libraries in front of the list
PrependReactScripts(object) ==
    [object EXCEPT !.scripts = Dedupe(REACT_SCRIPTS \o object.scripts)]

\* parsedManifest.scripts.push(...REACT_SCRIPTS);
\* parsedManifest.scripts = [...new Set(parsedManifest.scripts)]
InjectReactScripts(object) ==
    [object EXCEPT !.scripts = Dedupe(object.scripts \o REACT_SCRIPTS)]

\* The result of a call of getManifestContent: whether it threw, the
\* content it returned and whether it issued the write-back (writeFile).
ManifestResult(threw, content, wrote) ==
    [threw |-> threw, content |-> content, wrote |-> wrote]

getManifestContent(gistFiles) ==
    IF ~HasFile(gistFiles, PLAYGROUND_FILE)
    THEN ManifestResult(FALSE, Blank, FALSE)
    ELSE LET manifest == FileOf(gistFiles, PLAYGROUND_FILE).content
         IN  IF ~includesReactFiles(gistFiles)
             THEN ManifestResult(FALSE, manifest, FALSE)
             ELSE IF ~IsJson(manifest)
             THEN ManifestResult(TRUE, Blank, FALSE)        \* JSON.parse throws
             ELSE IF "scripts" \notin DOMAIN manifest.json
             THEN ManifestResult(TRUE, Blank, FALSE)        \* undefined.includes
             ELSE IF includesReactScripts(manifest.json.scripts)
             THEN ManifestResult(FALSE, manifest, FALSE)
             ELSE ManifestResult(FALSE,
                      JSON_stringify(InjectReactScripts(manifest.json)), TRUE)

EmptyObject == [x \in {} |-> 0]

\* try { manifest = JSON.parse(manifestContent) } catch (e) { manifest = {} }
ParseManifestOrEmpty(content) ==
    IF IsJson(content) THEN content.json ELSE EmptyObject

\* ------------------------------------------------------------- adapters
getMarkupContent(content, fileName) ==
    IF IsBlank(content) THEN content
    ELSE IF extname(fileName) = ".pug"
         THEN IF Malformed(content) THEN NullContent ELSE Rendered(content, "pug")
         ELSE content

getStylesheetContent(content, fileName) ==
    IF IsBlank(content) THEN content
    ELSE IF extname(fileName) \in {".scss", ".sass"}
         THEN IF Malformed(content) THEN NullContent ELSE Rendered(content, "sass")
         ELSE IF extname(fileName) = ".less"
         THEN IF Malformed(content) THEN NullContent ELSE Rendered(content, "less")
         ELSE content

\* typescript.transpile(content, compilerOptions): the emitted script keeps
\* whether JSX lowering was asked for
Transpile(content, compilerOptions) ==
    [t |-> IF IsJson(content) THEN "json" ELSE content.t,
     by |-> "typescript", jsx |-> compilerOptions.jsx]

\* manifest is undefined
NoManifest == [undefined |-> TRUE]

\* an adapter that asks for JSX lowering by the extension alone
getScriptContentByExtension(content, fileName, manifest) ==
    IF IsBlank(content) THEN content
    ELSE LET extension == extname(fileName)
             includesJsx == /\ "scripts" \in DOMAIN manifest
                            /\ Includes(manifest.scripts, "react")
         IN  IF Includes(TYPESCRIPT_EXTENSIONS, extension) \/ includesJsx
             THEN IF Malformed(content) THEN NullContent
                  ELSE Transpile(content, [jsx |-> Includes(REACT_EXTENSIONS, extension)])
             ELSE content

getScriptContent(content, fileName, manifest) ==
    IF IsBlank(content) THEN content
    ELSE LET extension == extname(fileName)
             \* manifest && manifest.scripts && manifest.scripts.includes("react")
             includesJsx == /\ "scripts" \in DOMAIN manifest
                            /\ Includes(manifest.scripts, "react")
         IN  IF Includes(TYPESCRIPT_EXTENSIONS, extension) \/ includesJsx
             THEN IF Malformed(content) THEN NullContent     \* transpile throws
                  ELSE Transpile(content,
                           [jsx |-> includesJsx \/ Includes(REACT_EXTENSIONS, extension)])
             ELSE content

\* getStylesheetContent suspends at `await less.render(content)`; on every
\* other path its promise is already settled when it is awaited
StylesheetSuspends(content, fileName) ==
    ~IsBlank(content) /\ extname(fileName) = ".less"

\* content || ""
OrEmpty(content) == IF content = NullContent THEN Blank ELSE content

\* ---------------------------------------------------------------- layout
EditorLayoutOrientation == [horizontal |-> 0, vertical |-> 1]

\* the size 0.5 of a group is written "0.5"
EditorLayouts ==
    [splitOne |->
        [orientation |-> EditorLayoutOrientation.horizontal,
         groups |-> <<EmptyObject, EmptyObject>>],
     splitTwo |->
        [orientation |-> EditorLayoutOrientation.horizontal,
         groups |-> <<[orientation |-> EditorLayoutOrientation.vertical,
                       groups |-> <<EmptyObject, EmptyObject>>, size |-> "0.5"],
                      [groups |-> <<EmptyObject>>, size |-> "0.5"]>>],
     splitThree |->
        [orientation |-> EditorLayoutOrientation.horizontal,
         groups |-> <<[orientation |-> EditorLayoutOrientation.vertical,
                       groups |-> <<EmptyObject, EmptyObject, EmptyObject>>,
                       size |-> "0.5"],
                      [groups |-> <<EmptyObject>>, size |-> "0.5"]>>],
     grid |->
        [orientation |-> EditorLayoutOrientation.horizontal,
         groups |-> <<[orientation |-> EditorLayoutOrientation.vertical,
                       groups |-> <<EmptyObject, EmptyObject>>, size |-> "0.5"],
                      [orientation |-> EditorLayoutOrientation.vertical,
                       groups |-> <<EmptyObject, EmptyObject>>, size |-> "0.5"]>>]]

\* [...groups].reverse()
Reverse(seq) == [i \in DOMAIN seq |-> seq[Len(seq) + 1 - i]]

\* [!!markupFile, !!stylesheetFile, !!scriptFile].filter((file) => file).length
includedFiles(markupFile, stylesheetFile, scriptFile) ==
    Cardinality({i \in 1 .. 3 :
        <<markupFile, stylesheetFile, scriptFile>>[i] # "undefined"})

\* manifest.layout || config.get("playgrounds.layout")
playgroundLayout(manifest, configured) ==
    IF "layout" \in DOMAIN manifest /\ manifest.layout # ""
    THEN manifest.layout ELSE configured

\* a plan that asks only for the preference
GridWheneverAsked(count, layout) ==
    IF layout = "grid" THEN EditorLayouts.grid
    ELSE IF count = 3 THEN EditorLayouts.splitThree
    ELSE IF count = 2 THEN EditorLayouts.splitTwo
    ELSE EditorLayouts.splitOne

\* lines 590-600
LayoutForFiles(count, layout) ==
    IF count = 3
    THEN IF layout = "grid" THEN EditorLayouts.grid ELSE EditorLayouts.splitThree
    ELSE IF count = 2 THEN EditorLayouts.splitTwo
    ELSE EditorLayouts.splitOne

\* lines 602-617: editorLayout, currentViewColumn and previewViewColumn
LayoutPlan(count, layout) ==
    LET base == LayoutForFiles(count, layout)
    IN  IF layout = "splitRight"
        THEN [editorLayout |-> [base EXCEPT !.groups = Reverse(base.groups)],
              currentViewColumn |-> 2, previewViewColumn |-> 1]
        ELSE IF layout = "splitTop"
        THEN [editorLayout |->
                 [base EXCEPT !.orientation = EditorLayoutOrientation.vertical],
              currentViewColumn |-> 1, previewViewColumn |-> count + 1]
        ELSE [editorLayout |-> base,
              currentViewColumn |-> 1, previewViewColumn |-> count + 1]

\* no editor and no panel has a view column
NoColumns == [markup |-> 0, stylesheet |-> 0, script |-> 0, preview |-> 0]

\* columns handed out from 1 whatever the layout
ColumnsFromOne(markupFile, stylesheetFile, scriptFile, layout, plan) ==
    LET n1 == IF markupFile # "undefined" THEN 1 ELSE 0
        n2 == IF stylesheetFile # "undefined" THEN 1 ELSE 0
    IN  [markup |-> IF markupFile # "undefined" THEN 1 ELSE 0,
         stylesheet |-> IF stylesheetFile # "undefined" THEN 1 + n1 ELSE 0,
         script |-> IF scriptFile # "undefined" THEN 1 + n1 + n2 ELSE 0,
         preview |-> plan.previewViewColumn]

\* lines 630-680: showTextDocument(..., viewColumn: currentViewColumn++) for
\* every role file unless the layout is preview, then createWebviewPanel
ViewColumns(markupFile, stylesheetFile, scriptFile, layout, plan) ==
    LET shows == layout # "preview"
        first == plan.currentViewColumn
        n1 == IF markupFile # "undefined" THEN 1 ELSE 0
        n2 == IF stylesheetFile # "undefined" THEN 1 ELSE 0
    IN  [markup |-> IF shows /\ markupFile # "undefined" THEN first ELSE 0,
         stylesheet |-> IF shows /\ stylesheetFile # "undefined" THEN first + n1 ELSE 0,
         script |-> IF shows /\ scriptFile # "undefined" THEN first + n1 + n2 ELSE 0,
         preview |-> plan.previewViewColumn]

\* ------------------------------------------------------------------ state
Gists == {"g1", "g2"}

Sessions == 1 .. MaxSessions

FileNames == Range(fileCandidates("markup")) \cup Range(fileCandidates("stylesheet"))
               \cup Range(fileCandidates("script")) \cup {PLAYGROUND_FILE}

Docs == {Doc(g, name) : g \in Gists, name \in FileNames}

VARIABLES
    files,              \* gist.files of every gist of the store
    text,               \* getText() of every TextDocument
    writes,             \* vscode.workspace.fs.writeFile calls not yet landed
    config,             \* the configuration and store.login
    pc,                 \* where each call of openPlayground stands
    closure,            \* the locals of each call of openPlayground
    panel,              \* webViewPanel: "none", "open" or "disposed"
    output,             \* the output channel: "none", "open" or "disposed"
    changeListener,     \* documentChangeDisposable is registered
    saveListener,       \* documentSaveDisposeable is registered
    onDidDispose,       \* the webViewPanel.onDidDispose handler is registered
    autoSaveInterval,   \* the setInterval timer is running
    debounced,          \* the debounce wrapper: its timer and last arguments
    lessPending,        \* results of less.render the change handler awaits
    layers,             \* what each session's PlaygroundWebview shows, per layer
    issued,             \* the calls the last step made on each PlaygroundWebview
    handlerError,       \* a change handler of the session has thrown
    activePlayground,   \* the module's activePlayground (a session, or 0 for null)
    storeActiveGist,    \* store.activeGist ("" for null)
    inPlayground,       \* the gistpad:inPlayground context
    budget,             \* events the environment may still raise
    burst,              \* per session: the change events since the timer last fired
    resolved,           \* per gist: the last two calls of getManifestContent
    DEFAULT_MANIFEST,   \* the module's DEFAULT_MANIFEST object
    galleryTemplates,   \* the module's galleryTemplates
    quickPick,          \* the template picker of newPlaygroundInternal
    creating,           \* where the call of newPlaygroundWithoutTemplate stands
    created             \* the accept and the creation calls since the last command

vars == <<files, text, writes, config, pc, closure, panel, output, changeListener,
          saveListener, onDidDispose, autoSaveInterval, debounced, lessPending,
          layers, issued, handlerError, activePlayground, storeActiveGist,
          inPlayground, budget, burst, resolved, DEFAULT_MANIFEST, galleryTemplates,
          quickPick, creating, created>>

\* the state of the new-playground commands
creationVars == <<DEFAULT_MANIFEST, galleryTemplates, quickPick, creating, created>>

NoSession == 0

NoClosure ==
    [gist |-> "", markupFile |-> "undefined", stylesheetFile |-> "undefined",
     scriptFile |-> "undefined", manifestContent |-> Blank, manifest |-> EmptyObject,
     htmlDocument |-> NoDoc, cssDocument |-> NoDoc, jsDocument |-> NoDoc,
     autoRun |-> "", runOnEdit |-> FALSE, cssContent |-> Blank,
     playgroundLayout |-> "", editorLayout |-> EmptyObject, currentViewColumn |-> 0,
     previewViewColumn |-> 0, layoutSet |-> FALSE, columns |-> NoColumns]

\* gist.owner && gist.owner.login === store.login
isOwner(g) == config.owner[g] = config.login

\* a handler that reads the stored file instead of the open document
getTextStale(document) ==
    IF HasFile(files[document.authority], document.file)
    THEN FileOf(files[document.authority], document.file).content
    ELSE Blank

getText(document) == text[document]

\* one call made on the PlaygroundWebview of session s, by openPlayground
\* ("open"), the change handler ("change") or the save handler ("save"); late
\* records that the preview panel was already disposed when it was made
Call(s, by, op, arg, autorun) ==
    [by |-> by, op |-> op, arg |-> arg, autorun |-> autorun,
     late |-> panel[s] = "disposed"]

RunOnEdit(s) == IF closure[s].runOnEdit THEN "true" ELSE "false"

\* updateJavaScript takes the document; the script it renders is its text
JsArg(document) == [doc |-> document, text |-> getText(document)]

LayerOps == {"updateManifest", "updateHTML", "updateCSS", "updateJavaScript"}

NoCalls == [s \in Sessions |-> <<>>]

\* the layers after a sequence of calls: each update call sets its layer
Shown(shown, log) ==
    [op \in LayerOps |->
        LET at == {i \in DOMAIN log : log[i].op = op}
        IN  IF at = {} THEN shown[op]
            ELSE log[CHOOSE i \in at : \A j \in at : j <= i].arg]

\* session s makes the calls of log on its webview; no other webview is called
Issue(s, log) ==
    /\ issued' = [NoCalls EXCEPT ![s] = log]
    /\ layers' = [layers EXCEPT ![s] = Shown(@, log)]

\* a step that calls no webview
Silent ==
    /\ issued' = NoCalls
    /\ UNCHANGED layers

\* the record of the last two calls of getManifestContent on a gist
Latest(log, entry) ==
    IF log = <<>> THEN <<entry>> ELSE <<log[Len(log)], entry>>

\* no picker is shown
NoQuickPick == [shown |-> FALSE, items |-> <<>>, isPublic |-> FALSE]

\* no call of newPlaygroundWithoutTemplate is under way
NotCreating == [at |-> "idle", isPublic |-> FALSE, accepted |-> FALSE, gist |-> ""]

InitCommon ==
    /\ text = [d \in Docs |->
                 IF HasFile(files[d.authority], d.file)
                 THEN FileOf(files[d.authority], d.file).content ELSE Blank]
    /\ writes = <<>>
    /\ pc = [s \in Sessions |-> "unused"]
    /\ closure = [s \in Sessions |-> NoClosure]
    /\ panel = [s \in Sessions |-> "none"]
    /\ output = [s \in Sessions |-> "none"]
    /\ changeListener = [s \in Sessions |-> FALSE]
    /\ saveListener = [s \in Sessions |-> FALSE]
    /\ onDidDispose = [s \in Sessions |-> FALSE]
    /\ autoSaveInterval = [s \in Sessions |-> FALSE]
    /\ debounced = [s \in Sessions |-> [timer |-> FALSE, args |-> NoDoc]]
    /\ lessPending = [s \in Sessions |-> <<>>]
    /\ layers = [s \in Sessions |-> [op \in LayerOps |-> [none |-> TRUE]]]
    /\ issued = NoCalls
    /\ handlerError = [s \in Sessions |-> FALSE]
    /\ activePlayground = NoSession
    /\ storeActiveGist = ""
    /\ inPlayground = FALSE
    /\ burst = [s \in Sessions |-> [events |-> 0, runs |-> 0, docs |-> {}]]
    /\ resolved = [g \in Gists |-> <<>>]
    /\ DEFAULT_MANIFEST = [scripts |-> <<>>, styles |-> <<>>]
    /\ galleryTemplates = <<>>
    /\ quickPick = NoQuickPick
    /\ creating = NotCreating
    /\ created = <<>>

\* --------------------------------------------------------- openPlayground
\* webViewPanel.dispose() on the panels of D.  A panel whose onDidDispose
\* handler is registered runs it (lines 826-846); a handler registered after
\* the panel was disposed never runs.
DisposePanels(D) ==
    LET H == {s \in D : onDidDispose[s]}
    IN  /\ panel' = [s \in Sessions |-> IF s \in D THEN "disposed" ELSE panel[s]]
        /\ changeListener' = [s \in Sessions |-> IF s \in H THEN FALSE ELSE changeListener[s]]
        /\ saveListener' = [s \in Sessions |-> IF s \in H THEN FALSE ELSE saveListener[s]]
        /\ output' = [s \in Sessions |-> IF s \in H THEN "disposed" ELSE output[s]]
        /\ autoSaveInterval' =
              [s \in Sessions |-> IF s \in H THEN FALSE ELSE autoSaveInterval[s]]
        /\ activePlayground' = IF H # {} THEN NoSession ELSE activePlayground
        /\ storeActiveGist' = IF H # {} THEN "" ELSE storeActiveGist
        /\ inPlayground' = IF H # {} THEN FALSE ELSE inPlayground

OpenPanels == {s \in Sessions : panel[s] = "open"}

\* one entry of the record of getManifestContent calls
Resolution(gistFiles, r) ==
    [keys |-> Keys(gistFiles), content |-> r.content, wrote |-> r.wrote, threw |-> r.threw]

WriteFile(g, r) ==
    IF r.wrote THEN <<[gist |-> g, content |-> r.content]>> ELSE <<>>

\* lines 572-619: resolve the role files and the manifest, plan the layout,
\* then "workbench.action.closeAllEditors", which closes every editor of the
\* window, the preview panels of earlier sessions among them.  A throw of
\* getManifestContent rejects the call before anything else happened.
OpenStart(s, g) ==
    /\ pc[s] = "unused"
    /\ \A r \in Sessions : r < s => pc[r] # "unused"
    /\ budget.opens > 0
    /\ budget' = [budget EXCEPT !.opens = @ - 1]
    /\ LET r == getManifestContent(files[g])
       IN  /\ resolved' = [resolved EXCEPT ![g] = Latest(@, Resolution(files[g], r))]
           /\ writes' = writes \o WriteFile(g, r)
           /\ IF r.threw
              THEN /\ pc' = [pc EXCEPT ![s] = "failed"]
                   /\ UNCHANGED <<closure, panel, changeListener, saveListener, output,
                                  autoSaveInterval, activePlayground, storeActiveGist,
                                  inPlayground>>
              ELSE /\ pc' = [pc EXCEPT ![s] = "opening"]
                   /\ closure' = [closure EXCEPT ![s] =
                         LET markupFile == getGistFileOfType(files[g], "markup")
                             stylesheetFile == getGistFileOfType(files[g], "stylesheet")
                             scriptFile == getGistFileOfType(files[g], "script")
                             manifest == ParseManifestOrEmpty(r.content)
                             layout == playgroundLayout(manifest, config'.layout)
                             plan == LayoutPlan(
                                 includedFiles(markupFile, stylesheetFile, scriptFile),
                                 layout)
                         IN  [NoClosure EXCEPT
                                !.gist = g,
                                !.markupFile = markupFile,
                                !.stylesheetFile = stylesheetFile,
                                !.scriptFile = scriptFile,
                                !.manifestContent = r.content,
                                !.manifest = manifest,
                                !.playgroundLayout = layout,
                                !.editorLayout = plan.editorLayout,
                                !.currentViewColumn = plan.currentViewColumn,
                                !.previewViewColumn = plan.previewViewColumn]]
                   /\ DisposePanels(OpenPanels)
    /\ Silent
    /\ UNCHANGED <<files, text, onDidDispose, debounced, lessPending, handlerError, burst>>

openPlayground(s, g) ==
    /\ UNCHANGED config
    /\ UNCHANGED creationVars
    /\ OpenStart(s, g)

\* lines 930-951: the layout is stored in the configuration and the active
\* playground's gist is opened again
changePlaygroundLayout(s, layout) ==
    /\ UNCHANGED creationVars
    /\ activePlayground # NoSession
    /\ config' = [config EXCEPT !.layout = layout]
    /\ OpenStart(s, closure[activePlayground].gist)

DocOrNone(g, fileName) == IF fileName = "undefined" THEN NoDoc ELSE Doc(g, fileName)

\* lines 780-794: updateCSS, updateJavaScript, and the rebuildWebview call
PushRest(s, c, cssContent) ==
    <<Call(s, "open", "updateCSS", cssContent, "undefined")>>
      \o (IF c.jsDocument # NoDoc
          THEN <<Call(s, "open", "updateJavaScript", JsArg(c.jsDocument), "undefined")>>
          ELSE <<>>)
      \o <<Call(s, "open", "rebuildWebview", Blank, "undefined")>>

\* lines 620-780: the documents are open; create the preview panel and the
\* output channel, register the listeners, push the manifest and the markup
\* and call getStylesheetContent.  Unless that call suspends (less), the call
\* runs on to rebuildWebview (line 794) in the same turn.
OpenRender(s) ==
    /\ UNCHANGED creationVars
    /\ pc[s] = "opening"
    /\ LET c0 == closure[s]
           c == [c0 EXCEPT
                   !.htmlDocument = DocOrNone(c0.gist, c0.markupFile),
                   !.cssDocument = DocOrNone(c0.gist, c0.stylesheetFile),
                   !.jsDocument = DocOrNone(c0.gist, c0.scriptFile),
                   !.layoutSet = (c0.playgroundLayout # "preview"),
                   !.columns = ViewColumns(c0.markupFile, c0.stylesheetFile,
                                           c0.scriptFile, c0.playgroundLayout, c0),
                   !.autoRun = config.autoRun,
                   !.runOnEdit = (config.autoRun = "onEdit"),
                   !.cssContent =
                       IF c0.stylesheetFile = "undefined" THEN Blank
                       ELSE OrEmpty(getStylesheetContent(
                                getText(Doc(c0.gist, c0.stylesheetFile)), c0.stylesheetFile))]
           first == <<Call(s, "open", "updateManifest", c.manifestContent, "undefined"),
                      Call(s, "open", "updateHTML",
                           IF c.markupFile = "undefined" THEN Blank
                           ELSE OrEmpty(getMarkupContent(getText(c.htmlDocument), c.markupFile)),
                           "undefined")>>
           suspends == /\ c.stylesheetFile # "undefined"
                       /\ StylesheetSuspends(getText(c.cssDocument), c.stylesheetFile)
       IN  /\ closure' = [closure EXCEPT ![s] = c]
           /\ panel' = [panel EXCEPT ![s] = "open"]
           /\ output' = [output EXCEPT ![s] = "open"]
           /\ changeListener' = [changeListener EXCEPT ![s] = TRUE]
           /\ saveListener' = [saveListener EXCEPT ![s] = (config.autoRun = "onSave")]
           /\ IF suspends
              THEN /\ pc' = [pc EXCEPT ![s] = "css"]
                   /\ Issue(s, first)
                   /\ UNCHANGED activePlayground
              ELSE /\ pc' = [pc EXCEPT ![s] = "rebuild"]
                   /\ Issue(s, first \o PushRest(s, c, c.cssContent))
                   /\ activePlayground' = s
    /\ UNCHANGED <<files, text, writes, config, onDidDispose, autoSaveInterval, debounced,
                   lessPending, handlerError, storeActiveGist, inPlayground, budget,
                   burst, resolved>>

\* lines 780-794, resumed when less.render has settled
OpenCss(s) ==
    /\ UNCHANGED creationVars
    /\ pc[s] = "css"
    /\ pc' = [pc EXCEPT ![s] = "rebuild"]
    /\ Issue(s, PushRest(s, closure[s], closure[s].cssContent))
    /\ activePlayground' = s
    /\ UNCHANGED <<files, text, writes, config, closure, panel, output, changeListener,
                   saveListener, onDidDispose, autoSaveInterval, debounced, lessPending,
                   handlerError, storeActiveGist, inPlayground, budget, burst, resolved>>

\* lines 794-800: rebuildWebview has settled; setContext gistpad:inPlayground
OpenRebuilt(s) ==
    /\ UNCHANGED creationVars
    /\ pc[s] = "rebuild"
    /\ pc' = [pc EXCEPT ![s] = "ctx1"]
    /\ inPlayground' = TRUE
    /\ Silent
    /\ UNCHANGED <<files, text, writes, config, closure, panel, output, changeListener,
                   saveListener, onDidDispose, autoSaveInterval, debounced, lessPending,
                   handlerError, activePlayground, storeActiveGist, budget, burst,
                   resolved>>

\* lines 802-808: store.activeGist, setContext gistpad:activeGist
OpenContext(s) ==
    /\ UNCHANGED creationVars
    /\ pc[s] = "ctx1"
    /\ pc' = [pc EXCEPT ![s] = "ctx2"]
    /\ storeActiveGist' = closure[s].gist
    /\ Silent
    /\ UNCHANGED <<files, text, writes, config, closure, panel, output, changeListener,
                   saveListener, onDidDispose, autoSaveInterval, debounced, lessPending,
                   handlerError, activePlayground, inPlayground, budget, burst,
                   resolved>>

\* lines 810-824: whether the 30 second setInterval is started
StartsAutoSave(g) ==
    /\ config.filesAutoSave # "afterDelay"
    /\ config.autoSave
    /\ isOwner(g)

\* lines 810-847: the auto-save timer, then the onDidDispose registration
OpenFinish(s) ==
    /\ UNCHANGED creationVars
    /\ pc[s] = "ctx2"
    /\ pc' = [pc EXCEPT ![s] = "done"]
    /\ autoSaveInterval' = [autoSaveInterval EXCEPT ![s] = StartsAutoSave(closure[s].gist)]
    /\ onDidDispose' = [onDidDispose EXCEPT ![s] = TRUE]
    /\ Silent
    /\ UNCHANGED <<files, text, writes, config, closure, panel, output, changeListener,
                   saveListener, debounced, lessPending, handlerError,
                   activePlayground, storeActiveGist, inPlayground, budget, burst, resolved>>

\* the user closes the preview panel of session s
PanelClosed(s) ==
    /\ UNCHANGED creationVars
    /\ panel[s] = "open"
    /\ DisposePanels({s})
    /\ Silent
    /\ UNCHANGED <<files, text, writes, config, pc, closure, onDidDispose, debounced,
                   lessPending, handlerError, budget, burst, resolved>>

\* lines 116-120
closeWebviewPanel(gistId) ==
    /\ UNCHANGED creationVars
    /\ activePlayground # NoSession
    /\ closure[activePlayground].gist = gistId
    /\ panel[activePlayground] = "open"
    /\ DisposePanels({activePlayground})
    /\ Silent
    /\ UNCHANGED <<files, text, writes, config, pc, closure, onDidDispose, debounced,
                   lessPending, handlerError, budget, burst, resolved>>

\* ------------------------------------------------------ the change handler
\* debounce(fn, 100): a call clears the pending timer, keeps the arguments of
\* this call and starts the timer again
debounce(state, document) == [timer |-> TRUE, args |-> document]

\* the timer fires once and is gone
debounceFired(state) == [timer |-> FALSE, args |-> NoDoc]

\* a handler that patches the layer whatever the adapter returned
PatchAlways(s, op, content) ==
    <<Call(s, "change", op, content, RunOnEdit(s))>>

\* if (content !== null) { htmlView.update...(content, runOnEdit) }
PatchIfNotNull(s, op, content) ==
    IF content # NullContent
    THEN <<Call(s, "change", op, content, RunOnEdit(s))>>
    ELSE <<>>

\* What one run of the change handler does: the calls it makes on the
\* webview, gist.files afterwards, the write-backs it issues, the less
\* result it awaits, the manifest local afterwards, the getManifestContent
\* call it made, and whether it threw.
Handled(s) ==
    [calls |-> <<>>, files |-> files[closure[s].gist], writes |-> <<>>,
     pending |-> <<>>, manifest |-> closure[s].manifest, resolved |-> <<>>,
     threw |-> FALSE]

\* a markup branch that reloads the preview after the patch
MarkupChangeRebuilds(s, document) ==
    [Handled(s) EXCEPT
        !.calls = PatchIfNotNull(s, "updateHTML",
                      getMarkupContent(getText(document), document.file))
                    \o <<Call(s, "change", "rebuildWebview", Blank, RunOnEdit(s))>>]

\* lines 714-719
MarkupChange(s, document) ==
    [Handled(s) EXCEPT
        !.calls = PatchIfNotNull(s, "updateHTML",
                      getMarkupContent(getText(document), document.file))]

\* lines 723-739
ScriptChange(s, document) ==
    LET c == closure[s]
        gistFiles == files[c.gist]
        update == <<Call(s, "change", "updateJavaScript", JsArg(document), RunOnEdit(s))>>
    IN  IF c.jsDocument # NoDoc /\ c.jsDocument # document
             /\ HasFile(gistFiles, c.jsDocument.file)
        THEN LET migrated ==
                     DeleteFile(PutFile(gistFiles, document.file,
                                        FileOf(gistFiles, c.jsDocument.file).content),
                                c.jsDocument.file)
                 r == getManifestContent(migrated)
             IN  [Handled(s) EXCEPT
                    !.files = migrated,
                    !.resolved = <<Resolution(migrated, r)>>,
                    !.writes = WriteFile(c.gist, r),
                    !.threw = r.threw,
                    !.calls = IF r.threw THEN <<>>
                              ELSE <<Call(s, "change", "updateManifest", r.content,
                                          RunOnEdit(s))>> \o update]
        ELSE [Handled(s) EXCEPT !.calls = update]

\* lines 741-749
ManifestChange(s, document) ==
    LET c == closure[s]
        content == getText(document)
        first == <<Call(s, "change", "updateManifest", content, RunOnEdit(s))>>
    IN  IF c.jsDocument = NoDoc
        THEN [Handled(s) EXCEPT !.calls = first]
        ELSE IF ~IsJson(content)
        THEN [Handled(s) EXCEPT !.calls = first, !.threw = TRUE]   \* JSON.parse throws
        ELSE [Handled(s) EXCEPT
                !.manifest = content.json,
                !.calls = first \o <<Call(s, "change", "updateJavaScript",
                                          JsArg(c.jsDocument), RunOnEdit(s))>>]

\* lines 753-756; the result of less.render is awaited
StylesheetChange(s, document) ==
    LET content == getStylesheetContent(getText(document), document.file)
    IN  IF StylesheetSuspends(getText(document), document.file)
        THEN [Handled(s) EXCEPT !.pending = <<content>>]
        ELSE [Handled(s) EXCEPT !.calls = PatchIfNotNull(s, "updateCSS", content)]

\* lines 713-758: the handler the debounce wrapper calls
ChangeHandler(s, document) ==
    LET g == closure[s].gist
    IN  IF isPlaygroundDocument(g, document, "markup") THEN MarkupChange(s, document)
        ELSE IF isPlaygroundDocument(g, document, "script") THEN ScriptChange(s, document)
        ELSE IF isPlaygroundManifestFile(g, document) THEN ManifestChange(s, document)
        ELSE IF isPlaygroundDocument(g, document, "stylesheet")
             THEN StylesheetChange(s, document)
        ELSE Handled(s)

\* A document changes: onDidChangeTextDocument calls the debounced handler of
\* every session whose listener is registered.
DocumentChanged(document, content) ==
    /\ UNCHANGED creationVars
    /\ budget.edits > 0
    /\ content # text[document]
    /\ budget' = [budget EXCEPT !.edits = @ - 1]
    /\ text' = [text EXCEPT ![document] = content]
    /\ debounced' = [s \in Sessions |->
          IF changeListener[s] THEN debounce(debounced[s], document) ELSE debounced[s]]
    /\ burst' = [s \in Sessions |->
          IF ~changeListener[s] THEN burst[s]
          ELSE IF debounced[s].timer
          THEN [burst[s] EXCEPT !.events = 2, !.docs = @ \cup {document}]
          ELSE [events |-> 1, runs |-> 0, docs |-> {document}]]
    /\ Silent
    /\ UNCHANGED <<files, writes, config, pc, closure, panel, output, changeListener,
                   saveListener, onDidDispose, autoSaveInterval, lessPending, handlerError, activePlayground, storeActiveGist, inPlayground, resolved>>

\* 100ms have passed since the last call of the debounced handler of s
DebounceFires(s) ==
    /\ UNCHANGED creationVars
    /\ debounced[s].timer
    /\ LET h == ChangeHandler(s, debounced[s].args)
           g == closure[s].gist
       IN  /\ Issue(s, h.calls)
           /\ files' = [files EXCEPT ![g] = h.files]
           /\ writes' = writes \o h.writes
           /\ lessPending' = [lessPending EXCEPT ![s] = @ \o h.pending]
           /\ closure' = [closure EXCEPT ![s].manifest = h.manifest]
           /\ resolved' = [resolved EXCEPT ![g] =
                 IF h.resolved = <<>> THEN @ ELSE Latest(@, h.resolved[1])]
           /\ handlerError' = [handlerError EXCEPT ![s] = @ \/ h.threw]
    /\ debounced' = [debounced EXCEPT ![s] = debounceFired(@)]
    /\ burst' = [burst EXCEPT ![s].runs = IF @ < 2 THEN @ + 1 ELSE @]
    /\ UNCHANGED <<text, config, pc, panel, output, changeListener, saveListener,
                   onDidDispose, autoSaveInterval, activePlayground, storeActiveGist,
                   inPlayground, budget>>

RemoveAt(seq, i) == SubSeq(seq, 1, i - 1) \o SubSeq(seq, i + 1, Len(seq))

\* lines 753-756, resumed: a less.render the handler awaits has settled
LessSettles(s, i) ==
    /\ UNCHANGED creationVars
    /\ i \in DOMAIN lessPending[s]
    /\ Issue(s, PatchIfNotNull(s, "updateCSS", lessPending[s][i]))
    /\ lessPending' = [lessPending EXCEPT ![s] = RemoveAt(@, i)]
    /\ UNCHANGED <<files, text, writes, config, pc, closure, panel, output, changeListener,
                   saveListener, onDidDispose, autoSaveInterval, debounced, handlerError,
                   activePlayground, storeActiveGist, inPlayground, budget, burst, resolved>>

\* a save handler that does not look at the gist of the saved document
SavesAlways(s, document) == saveListener[s]

\* lines 763-771: a document is saved; every registered save handler runs
SavesRebuild(s, document) ==
    /\ saveListener[s]
    /\ activePlayground # NoSession
    /\ document.authority = closure[activePlayground].gist

DocumentSaved(document) ==
    /\ UNCHANGED creationVars
    /\ budget.saves > 0
    /\ budget' = [budget EXCEPT !.saves = @ - 1]
    /\ issued' = [s \in Sessions |->
          IF SavesRebuild(s, document)
          THEN <<Call(s, "save", "rebuildWebview", Blank, "undefined")>>
          ELSE <<>>]
    /\ UNCHANGED <<layers, files, text, writes, config, pc, closure, panel, output, changeListener,
                   saveListener, onDidDispose, autoSaveInterval, debounced, lessPending,
                   handlerError, activePlayground, storeActiveGist, inPlayground, burst,
                   resolved>>

\* a write-back of the manifest reaches the store
WriteLands ==
    /\ UNCHANGED creationVars
    /\ writes # <<>>
    /\ files' = [files EXCEPT ![Head(writes).gist] =
                    PutFile(@, PLAYGROUND_FILE, Head(writes).content)]
    /\ writes' = Tail(writes)
    /\ Silent
    /\ UNCHANGED <<text, config, pc, closure, panel, output, changeListener, saveListener,
                   onDidDispose, autoSaveInterval, debounced, lessPending, handlerError, activePlayground, storeActiveGist, inPlayground, budget,
                   burst, resolved>>

\* The user saves the manifest document: the file system provider stores its
\* text as the gist's manifest file, and every registered save handler runs.
ManifestSaved(document) ==
    LET g == document.authority
    IN  /\ UNCHANGED creationVars
        /\ document.file = PLAYGROUND_FILE
        /\ HasFile(files[g], PLAYGROUND_FILE)
        /\ text[document] # FileOf(files[g], PLAYGROUND_FILE).content
        /\ budget.saves > 0
        /\ budget' = [budget EXCEPT !.saves = @ - 1]
        /\ files' = [files EXCEPT ![g] = PutFile(@, PLAYGROUND_FILE, text[document])]
        /\ issued' = [s \in Sessions |->
              IF SavesRebuild(s, document)
              THEN <<Call(s, "save", "rebuildWebview", Blank, "undefined")>>
              ELSE <<>>]
        /\ UNCHANGED <<layers, text, writes, config, pc, closure, panel, output,
                       changeListener, saveListener, onDidDispose, autoSaveInterval,
                       debounced, lessPending, handlerError, activePlayground,
                       storeActiveGist, inPlayground, burst, resolved>>

\* lines 919-928: the run command rebuilds the active playground's preview
runPlayground ==
    /\ UNCHANGED creationVars
    /\ issued' = [s \in Sessions |->
          IF activePlayground # NoSession /\ s = activePlayground
          THEN <<Call(s, "run", "rebuildWebview", Blank, "undefined")>>
          ELSE <<>>]
    /\ UNCHANGED <<layers, files, text, writes, config, pc, closure, panel, output,
                   changeListener, saveListener, onDidDispose, autoSaveInterval,
                   debounced, lessPending, handlerError, activePlayground,
                   storeActiveGist, inPlayground, budget, burst, resolved>>

\* ---------------------------------------------------------- environment
File(name, content) == [filename |-> name, content |-> content]

Src(t) == [t |-> t]

Json(object) == [json |-> object, indent |-> 0]

PlaygroundLayout == {"grid", "preview", "splitLeft", "splitRight", "splitTop"}

\* the texts a user types into a role document, and into the manifest
PlainTexts == {Src("a"), Src("b"), Src("!")}

ManifestTexts == {Src("{"), Json([scripts |-> <<>>]), Json([scripts |-> <<"react">>])}

EditTexts(document) ==
    IF document.file = PLAYGROUND_FILE THEN ManifestTexts ELSE PlainTexts

Config(autoRun, autoSave, filesAutoSave) ==
    [layout |-> "splitLeft", autoRun |-> autoRun, autoSave |-> autoSave,
     filesAutoSave |-> filesAutoSave, login |-> "me",
     owner |-> [g \in Gists |-> IF g = "g1" THEN "me" ELSE "other"]]

Configs ==
    {Config("onEdit", TRUE, "off"), Config("onSave", TRUE, "off"),
     Config("onEdit", FALSE, "off"), Config("onEdit", TRUE, "afterDelay")}

\* Spec: two gists, sessions opened over one another
FullGist ==
    <<File("index.pug", Src("a")), File("style.less", Src("a")),
      File("script.jsx", Src("a")), File(PLAYGROUND_FILE, Json([scripts |-> <<>>]))>>

PlainGist == <<File("index.html", Src("a")), File("style.css", Src("a"))>>

SpecDocs == {Doc("g1", "index.pug"), Doc("g1", "style.less"), Doc("g2", "index.html")}

\* the save handler reads only the gist of the saved document
SavedDocs == {Doc("g1", PLAYGROUND_FILE), Doc("g2", "index.html")}

Init ==
    /\ files = [g \in Gists |-> IF g = "g1" THEN FullGist ELSE PlainGist]
    /\ config \in Configs
    /\ budget = [opens |-> MaxSessions, edits |-> MaxEdits, saves |-> MaxSaves]
    /\ InitCommon

Next ==
    \/ \E s \in Sessions, g \in Gists : openPlayground(s, g)
    \/ \E s \in Sessions, layout \in {"grid"} : changePlaygroundLayout(s, layout)
    \/ \E s \in Sessions : OpenRender(s)
    \/ \E s \in Sessions : OpenCss(s)
    \/ \E s \in Sessions : OpenRebuilt(s)
    \/ \E s \in Sessions : OpenContext(s)
    \/ \E s \in Sessions : OpenFinish(s)
    \/ \E s \in Sessions : PanelClosed(s)
    \/ \E g \in Gists : closeWebviewPanel(g)
    \/ \E d \in SpecDocs, t \in {Src("b"), Src("!")} : DocumentChanged(d, t)
    \/ \E s \in Sessions : DebounceFires(s)
    \/ \E s \in Sessions, i \in 1 .. MaxEdits : LessSettles(s, i)
    \/ \E d \in SavedDocs : DocumentSaved(d)
    \/ WriteLands

Spec == Init /\ [][Next]_vars

\* SpecSync: the first session, and the documents of its gist edited and renamed
SyncGists ==
    {<<File("index.pug", Src("a")), File("style.scss", Src("a")),
       File("script.js", Src("a")), File(PLAYGROUND_FILE, Json([scripts |-> <<>>]))>>,
     <<File("index.html", Src("a")), File("style.less", Src("a")),
       File(PLAYGROUND_FILE, Src("{"))>>,
     <<File("index.html", Src("a")), File("script.jsx", Src("a")),
       File(PLAYGROUND_FILE, Src("{"))>>,
     <<File("script.tsx", Src("a")), File(PLAYGROUND_FILE, Json([layout |-> "grid"]))>>,
     <<File("script.jsx", Src("a")),
       File(PLAYGROUND_FILE, Json([scripts |-> <<"lodash">>]))>>}

ScriptNames == {"script.js", "script.jsx", "script.tsx"}

\* the documents the user edits: those of the files of g1, the script under
\* another extension (a rename), and a document of another gist
SyncDocs ==
    {Doc("g1", name) : name \in Range(Keys(files["g1"])) \cup ScriptNames}
      \cup {Doc("g2", "index.html")}

InitSync ==
    /\ files \in {[g \in Gists |-> IF g = "g1" THEN gistFiles ELSE PlainGist] :
                     gistFiles \in SyncGists}
    /\ config \in {Config("onEdit", TRUE, "off"), Config("onSave", TRUE, "off")}
    /\ budget = [opens |-> MaxSessions, edits |-> SyncEdits, saves |-> MaxSaves]
    /\ InitCommon

\* the first call of openPlayground, on g1, and the change events of its session
NextSync ==
    \/ openPlayground(1, "g1")
    \/ OpenRender(1)
    \/ OpenCss(1)
    \/ OpenRebuilt(1)
    \/ OpenContext(1)
    \/ OpenFinish(1)
    \/ \E d \in SyncDocs : \E t \in EditTexts(d) : DocumentChanged(d, t)
    \/ DebounceFires(1)
    \/ \E i \in 1 .. SyncEdits : LessSettles(1, i)
    \/ WriteLands

SpecSync == InitSync /\ [][NextSync]_vars

\* SpecOpen: openPlayground on bundles of every shape, under every layout
MarkupParts ==
    {<<>>, <<File("index.html", Src("a"))>>,
     <<File("index.pug", Src("a")), File("index.html", Src("b"))>>}

StylesheetParts ==
    {<<>>, <<File("style.less", Src("a"))>>,
     <<File("style.scss", Src("a")), File("style.css", Src("b"))>>}

ScriptParts ==
    {<<>>, <<File("script.ts", Src("a")), File("script.js", Src("b"))>>}
      \cup {<<File(name, t)>> : name \in Range(fileCandidates("script")),
                                t \in {Src("a"), Src("!"), Src(" ")}}

ManifestParts ==
    {<<>>} \cup
    {<<File(PLAYGROUND_FILE, t)>> :
        t \in {Src("{"), Json(EmptyObject), Json([scripts |-> <<>>]),
               Json([scripts |-> <<"lodash">>]), Json([scripts |-> <<"react">>]),
               Json([scripts |-> <<"react-dom", "lodash">>]),
               Json([scripts |-> <<"react", "react-dom">>]),
               Json([scripts |-> <<>>, layout |-> "grid"]),
               Json([scripts |-> <<"react">>, layout |-> "splitRight"])}}

OpenGists ==
    {m \o c \o j \o p : m \in MarkupParts, c \in StylesheetParts,
                        j \in ScriptParts, p \in ManifestParts}

InitOpen ==
    /\ files \in {[g \in Gists |-> IF g = "g1" THEN gistFiles ELSE PlainGist] :
                     gistFiles \in OpenGists}
    /\ config \in {[Config("onEdit", TRUE, "off") EXCEPT !.layout = layout] :
                      layout \in PlaygroundLayout}
    /\ budget = [opens |-> MaxSessions, edits |-> 0, saves |-> 0]
    /\ InitCommon

\* g1 is opened, and opened again once the first call has pushed its layers
NextOpen ==
    \/ \E s \in Sessions : pc[1] \in {"unused", "rebuild"} /\ openPlayground(s, "g1")
    \/ \E s \in Sessions : OpenRender(s)
    \/ \E s \in Sessions : OpenCss(s)
    \/ WriteLands

SpecOpen == InitOpen /\ [][NextOpen]_vars

\* SpecStore: the manifest of g1 edited and saved by the user while the
\* write-backs of getManifestContent are on their way
StoreGists ==
    {<<File("script.jsx", Src("a")), File(PLAYGROUND_FILE, Json([scripts |-> <<>>]))>>,
     <<File("script.js", Src("a")), File(PLAYGROUND_FILE, Json([scripts |-> <<>>]))>>}

StoreDocs == {Doc("g1", PLAYGROUND_FILE), Doc("g1", "script.jsx"), Doc("g1", "script.js")}

StoreTexts(document) ==
    IF document.file = PLAYGROUND_FILE
    THEN {Json([scripts |-> <<"lodash">>])}
    ELSE {Src("b")}

InitStore ==
    /\ files \in {[g \in Gists |-> IF g = "g1" THEN gistFiles ELSE PlainGist] :
                     gistFiles \in StoreGists}
    /\ config \in {Config("onEdit", TRUE, "off"), Config("onSave", TRUE, "off")}
    /\ budget = [opens |-> 1, edits |-> MaxEdits + 1, saves |-> MaxSaves]
    /\ InitCommon

NextStore ==
    \/ openPlayground(1, "g1")
    \/ OpenRender(1)
    \/ OpenRebuilt(1)
    \/ OpenContext(1)
    \/ OpenFinish(1)
    \/ \E d \in StoreDocs : \E t \in StoreTexts(d) : DocumentChanged(d, t)
    \/ DebounceFires(1)
    \/ \E d \in StoreDocs : ManifestSaved(d)
    \/ WriteLands

SpecStore == InitStore /\ [][NextStore]_vars

\* SpecRun: one playground of g1, its documents changed and saved, the run
\* command, and the panel closed
RunGist ==
    <<File("index.pug", Src("a")), File("style.less", Src("a")),
      File("script.js", Src("a")), File(PLAYGROUND_FILE, Json([scripts |-> <<>>]))>>

RunDocs ==
    {Doc("g1", name) : name \in Range(Keys(RunGist)) \cup {"script.jsx"}}
      \cup {Doc("g2", "index.html")}

InitRun ==
    /\ files = [g \in Gists |-> IF g = "g1" THEN RunGist ELSE PlainGist]
    /\ config \in {Config("onEdit", TRUE, "off"), Config("onSave", TRUE, "off")}
    /\ budget = [opens |-> 1, edits |-> MaxEdits, saves |-> MaxSaves]
    /\ InitCommon

NextRun ==
    \/ openPlayground(1, "g1")
    \/ OpenRender(1)
    \/ OpenCss(1)
    \/ OpenRebuilt(1)
    \/ OpenContext(1)
    \/ OpenFinish(1)
    \/ PanelClosed(1)
    \/ \E d \in RunDocs : \E t \in EditTexts(d) : DocumentChanged(d, t)
    \/ DebounceFires(1)
    \/ \E i \in 1 .. MaxEdits : LessSettles(1, i)
    \/ \E d \in SavedDocs : DocumentSaved(d)
    \/ runPlayground
    \/ WriteLands

SpecRun == InitRun /\ [][NextRun]_vars

\* SpecScript: getScriptContent called on every script document and manifest
ScriptGists ==
    {<<File(name, t)>> : name \in Range(fileCandidates("script")),
                         t \in {Src("a"), Src("!"), Src(" "), Src("")}}

ScriptManifests ==
    {NoManifest, EmptyObject, [scripts |-> <<>>], [scripts |-> <<"lodash">>],
     [scripts |-> <<"react">>], [scripts |-> <<"react-dom", "lodash">>],
     [scripts |-> <<"lodash", "react">>], [styles |-> <<>>]}

InitScript ==
    /\ files \in {[g \in Gists |-> IF g = "g1" THEN gistFiles ELSE PlainGist] :
                     gistFiles \in ScriptGists}
    /\ config = Config("onEdit", TRUE, "off")
    /\ budget = [opens |-> 0, edits |-> 0, saves |-> 0]
    /\ InitCommon

\* one call getScriptContent(document, manifest); what it was given and what
\* it returned are kept as the script layer of session 1
ScriptContentCall(document, manifest) ==
    /\ UNCHANGED creationVars
    /\ layers' = [layers EXCEPT ![1]["updateJavaScript"] =
                     [doc |-> document, text |-> getText(document),
                      manifest |-> manifest,
                      content |-> getScriptContent(getText(document), document.file,
                                                   manifest)]]
    /\ UNCHANGED <<files, text, writes, config, pc, closure, panel, output,
                   changeListener, saveListener, onDidDispose, autoSaveInterval,
                   debounced, lessPending, issued, handlerError, activePlayground,
                   storeActiveGist, inPlayground, budget, burst, resolved>>

NextScript ==
    \E i \in DOMAIN files["g1"], manifest \in ScriptManifests :
        ScriptContentCall(Doc("g1", files["g1"][i].filename), manifest)

SpecScript == InitScript /\ [][NextScript]_vars

\* ------------------------------------------------------- new playgrounds
ScriptLanguage ==
    [babel |-> ".babel", javascript |-> ".js", javascriptmodule |-> ".mjs",
     javascriptreact |-> ".jsx", typescript |-> ".ts", typescriptreact |-> ".tsx"]

StylesheetLanguage == [css |-> ".css", less |-> ".less", sass |-> ".sass", scss |-> ".scss"]

MarkupLanguage == [html |-> ".html", pug |-> ".pug"]

\* generateNewPlaygroundFiles.  `{...DEFAULT_MANIFEST}` copies the object's two
\* fields, not the arrays they hold: manifest.scripts is the very array of
\* DEFAULT_MANIFEST.scripts, and the push on it is a push on both.  The result
\* is the files returned and DEFAULT_MANIFEST as the call leaves it.
generateNewPlaygroundFiles(cfg, default) ==
    LET scriptFileName == SCRIPT_BASE_NAME \o ScriptLanguage[cfg.scriptLanguage]
        stylesheetFileName ==
            STYLESHEET_BASE_NAME \o StylesheetLanguage[cfg.stylesheetLanguage]
        markupFileName == MARKUP_BASE_NAME \o MarkupLanguage[cfg.markupLanguage]
        scripts == IF cfg.includeScript /\ isReactFile(scriptFileName)
                   THEN default.scripts \o REACT_SCRIPTS
                   ELSE default.scripts
        manifest == [scripts |-> scripts, styles |-> default.styles]
    IN  [files |->
            (IF cfg.includeScript THEN <<[filename |-> scriptFileName]>> ELSE <<>>)
            \o (IF cfg.includeStylesheet THEN <<[filename |-> stylesheetFileName]>>
                ELSE <<>>)
            \o (IF cfg.includeMarkup THEN <<[filename |-> markupFileName]>> ELSE <<>>)
            \o <<File(PLAYGROUND_FILE, JSON_stringify(manifest))>>,
         DEFAULT_MANIFEST |-> [default EXCEPT !.scripts = scripts]]

\* labels, in the order of localeCompare
Collation == <<"Angular", "g1", "g2", "React">>

localeCompare(a, b) ==
    (CHOOSE i \in DOMAIN Collation : Collation[i] = a)
    - (CHOOSE i \in DOMAIN Collation : Collation[i] = b)

\* templates.sort((a, b) => a.label.localeCompare(b.label)); the sort is stable
InsertByLabel(sorted, template) ==
    LET k == Cardinality({i \in DOMAIN sorted :
                             localeCompare(sorted[i].label, template.label) <= 0})
    IN  SubSeq(sorted, 1, k) \o <<template>> \o SubSeq(sorted, k + 1, Len(sorted))

RECURSIVE SortByLabel(_)
SortByLabel(templates) ==
    IF templates = <<>> THEN <<>>
    ELSE InsertByLabel(SortByLabel(SubSeq(templates, 1, Len(templates) - 1)),
                       templates[Len(templates)])

NO_TEMPLATE_GIST_ITEM ==
    [label |-> "$(arrow-right) Continue without a template", alwaysShow |-> TRUE]

\* store.gists.concat(store.starredGists)
StoreGistOrder == <<"g1", "g2">>

\* the gist is a template: its manifest has content, parses, and has template set
IsTemplateGist(gistFiles) ==
    /\ HasFile(gistFiles, PLAYGROUND_FILE)
    /\ LET content == FileOf(gistFiles, PLAYGROUND_FILE).content
       IN  /\ content # Blank
           /\ IsJson(content)
           /\ "template" \in DOMAIN content.json
           /\ content.json.template = TRUE

\* lines 523-540: the gallery templates, then the user's template gists
RECURSIVE StoreTemplates(_)
StoreTemplates(gists) ==
    IF gists = <<>> THEN <<>>
    ELSE (IF IsTemplateGist(files[Head(gists)])
          THEN <<[label |-> Head(gists), gist |-> Head(gists)]>> ELSE <<>>)
         \o StoreTemplates(Tail(gists))

newGist(gistFiles, isPublic, description) ==
    [op |-> "newGist", files |-> gistFiles, isPublic |-> isPublic,
     description |-> description]

\* duplicatePlayground((<GalleryTemplate>template).gist, isPublic, template.label):
\* duplicateGist(gistId, isPublic, description); an item without gist gives undefined
duplicatePlayground(template, isPublic) ==
    [op |-> "duplicateGist",
     gist |-> IF "gist" \in DOMAIN template THEN template.gist ELSE "undefined",
     isPublic |-> isPublic, description |-> template.label]

\* the steps of the new-playground commands call no webview and touch no session
NoSessionStep ==
    /\ Silent
    /\ UNCHANGED <<text, writes, pc, closure, panel, output, changeListener,
                   saveListener, onDidDispose, autoSaveInterval, debounced,
                   lessPending, handlerError, activePlayground, storeActiveGist,
                   inPlayground, budget, burst, resolved>>

\* no picker is open, no playground is being created and none is being opened
NoCommand ==
    /\ ~quickPick.shown
    /\ creating.at = "idle"
    /\ \A s \in Sessions : pc[s] \in {"unused", "failed", "done"}

\* lines 463-483: the templates of the galleries, sorted by label
loadGalleryTemplates(data) ==
    /\ NoCommand
    /\ galleryTemplates # SortByLabel(data)
    /\ galleryTemplates' = SortByLabel(data)
    /\ NoSessionStep
    /\ UNCHANGED <<files, config, DEFAULT_MANIFEST, quickPick, creating, created>>

\* the user changes the playground settings
ConfigurationChanged(cfg) ==
    /\ NoCommand
    /\ cfg # config
    /\ config' = cfg
    /\ NoSessionStep
    /\ UNCHANGED <<files, creationVars>>

\* lines 491-498: newPlaygroundWithoutTemplate up to its input box
AskDescription(isPublic, accepted) ==
    creating' = [at |-> "input", isPublic |-> isPublic, accepted |-> accepted,
                 gist |-> ""]

\* lines 514-551: the command shows the picker, or, without any template,
\* goes on without one
newPlaygroundInternal(isPublic) ==
    /\ NoCommand
    /\ \E g \in Gists : files[g] = <<>>
    /\ \E s \in Sessions : pc[s] = "unused"
    /\ LET templates == galleryTemplates \o StoreTemplates(StoreGistOrder)
       IN  IF templates = <<>>
           THEN /\ AskDescription(isPublic, FALSE)
                /\ UNCHANGED quickPick
           ELSE /\ quickPick' = [shown |-> TRUE,
                                 items |-> SortByLabel(templates)
                                           \o <<NO_TEMPLATE_GIST_ITEM>>,
                                 isPublic |-> isPublic]
                /\ UNCHANGED creating
    /\ created' = <<>>
    /\ NoSessionStep
    /\ UNCHANGED <<files, config, DEFAULT_MANIFEST, galleryTemplates>>

\* what the accept handler does once `await newPlaygroundWithoutTemplate(...)`
\* has returned: the case has no break, so the default arm runs with the
\* "continue without a template" item, which has no gist
AfterWithoutTemplate ==
    IF creating.accepted
    THEN <<duplicatePlayground(NO_TEMPLATE_GIST_ITEM, creating.isPublic)>>
    ELSE <<>>

\* lines 553-567: onDidAccept with the i-th item selected
QuickPickAccepted(i) ==
    /\ quickPick.shown
    /\ i \in DOMAIN quickPick.items
    /\ quickPick' = [quickPick EXCEPT !.shown = FALSE]
    /\ LET template == quickPick.items[i]
       IN  IF template.label = NO_TEMPLATE_GIST_ITEM.label
           THEN /\ AskDescription(quickPick.isPublic, TRUE)
                /\ created' = <<[op |-> "accept", item |-> i]>>
           ELSE /\ created' = <<[op |-> "accept", item |-> i],
                                duplicatePlayground(template, quickPick.isPublic)>>
                /\ UNCHANGED creating
    /\ NoSessionStep
    /\ UNCHANGED <<files, config, DEFAULT_MANIFEST, galleryTemplates>>

\* lines 495-505: the input box returns; without a description the call
\* returns, with one the files are generated and newGist is called
DescriptionEntered(description) ==
    /\ creating.at = "input"
    /\ IF description = ""
       THEN /\ creating' = NotCreating
            /\ created' = created \o AfterWithoutTemplate
            /\ UNCHANGED DEFAULT_MANIFEST
       ELSE LET r == generateNewPlaygroundFiles(config, DEFAULT_MANIFEST)
            IN  /\ DEFAULT_MANIFEST' = r.DEFAULT_MANIFEST
                /\ created' = created \o <<newGist(r.files, creating.isPublic,
                                                    description)>>
                /\ creating' = [creating EXCEPT !.at = "newGist"]
    /\ NoSessionStep
    /\ UNCHANGED <<files, config, galleryTemplates, quickPick>>

\* the store has the gist that newGist creates
NewGistStored ==
    /\ creating.at = "newGist"
    /\ LET free == {i \in DOMAIN StoreGistOrder : files[StoreGistOrder[i]] = <<>>}
           g == StoreGistOrder[CHOOSE i \in free : \A j \in free : i <= j]
           call == created[Len(created)]
       IN  \* a file given without content is stored empty
           /\ files' = [files EXCEPT ![g] =
                 [i \in DOMAIN call.files |->
                     IF "content" \in DOMAIN call.files[i] THEN call.files[i]
                     ELSE File(call.files[i].filename, Blank)]]
           /\ creating' = [creating EXCEPT !.at = "stored", !.gist = g]
    /\ NoSessionStep
    /\ UNCHANGED <<config, DEFAULT_MANIFEST, galleryTemplates, quickPick, created>>

\* lines 500-510: newGist has returned the gist and openPlayground(gist) is
\* called; then the accept handler, when there is one, goes on
NewGistResolved ==
    /\ creating.at = "stored"
    /\ UNCHANGED <<config, DEFAULT_MANIFEST, galleryTemplates, quickPick>>
    /\ \E s \in Sessions : OpenStart(s, creating.gist)
    /\ creating' = NotCreating
    /\ created' = created \o AfterWithoutTemplate

\* SpecNew: playgrounds created from the settings and from templates
NewConfig(scriptLanguage, includeScript, includeOthers) ==
    LET c == Config("onEdit", TRUE, "off")
    IN  [layout |-> c.layout, autoRun |-> c.autoRun, autoSave |-> c.autoSave,
         filesAutoSave |-> c.filesAutoSave, login |-> c.login,
         owner |-> [g \in Gists |-> c.login],
         includeScript |-> includeScript, scriptLanguage |-> scriptLanguage,
         includeStylesheet |-> includeOthers, stylesheetLanguage |-> "css",
         includeMarkup |-> includeOthers, markupLanguage |-> "html"]

NewConfigs ==
    {NewConfig(language, TRUE, TRUE) : language \in DOMAIN ScriptLanguage}
    \cup {NewConfig("javascriptreact", FALSE, TRUE), NewConfig("typescriptreact", TRUE, FALSE)}

GalleryData ==
    {<<>>, <<[label |-> "React", gist |-> "t1"]>>,
     <<[label |-> "React", gist |-> "t1"], [label |-> "Angular", gist |-> "t2"]>>}

\* the user's gists before any playground is created
NewGists ==
    {<<>>,
     <<File(PLAYGROUND_FILE, Json([scripts |-> <<>>, template |-> TRUE]))>>,
     <<File("index.html", Src("a")), File(PLAYGROUND_FILE, Json([scripts |-> <<>>]))>>,
     <<File("index.html", Src("a")), File(PLAYGROUND_FILE, Src("{"))>>}

InitNew ==
    /\ files \in {[g \in Gists |-> IF g = "g1" THEN gistFiles ELSE <<>>] :
                     gistFiles \in NewGists}
    /\ config \in NewConfigs
    /\ budget = [opens |-> MaxSessions, edits |-> 0, saves |-> 0]
    /\ InitCommon

NextNew ==
    \/ \E isPublic \in BOOLEAN : newPlaygroundInternal(isPublic)
    \/ \E data \in GalleryData : loadGalleryTemplates(data)
    \/ \E cfg \in NewConfigs : ConfigurationChanged(cfg)
    \/ \E i \in DOMAIN quickPick.items : QuickPickAccepted(i)
    \/ \E description \in {"", "d"} : DescriptionEntered(description)
    \/ NewGistStored
    \/ NewGistResolved
    \/ \E s \in Sessions : OpenRender(s)
    \/ \E s \in Sessions : OpenRebuilt(s)
    \/ \E s \in Sessions : OpenContext(s)
    \/ \E s \in Sessions : OpenFinish(s)

SpecNew == InitNew /\ [][NextNew]_vars

\* ================================================================ claims
\* a session is live: a listener is registered, its timer runs or its panel is open
Live(s) ==
    \/ changeListener[s]
    \/ saveListener[s]
    \/ autoSaveInterval[s]
    \/ panel[s] = "open"

\* the session is back to Idle
Idle(s) ==
    /\ ~changeListener[s]
    /\ ~saveListener[s]
    /\ ~autoSaveInterval[s]
    /\ output[s] = "disposed"
    /\ activePlayground # s

\* the step is the debounce timer of s firing, which runs the change handler
FireStep(s) == debounced[s].timer /\ ~debounced'[s].timer

\* the role the change handler of s gives a document
RoleOf(s, d) ==
    LET g == closure[s].gist
    IN  IF isPlaygroundDocument(g, d, "markup") THEN "markup"
        ELSE IF isPlaygroundDocument(g, d, "script") THEN "script"
        ELSE IF isPlaygroundManifestFile(g, d) THEN "manifest"
        ELSE IF isPlaygroundDocument(g, d, "stylesheet") THEN "stylesheet"
        ELSE "none"

HasCall(log, op, arg) == \E i \in DOMAIN log : log[i].op = op /\ log[i].arg = arg

CountCalls(log, op) == Cardinality({i \in DOMAIN log : log[i].op = op})

\* In this step the handler of s took up document d with its current text:
\* the layer of d's role is patched with it (or the transpile failed, or the
\* less result is awaited).
Dispatched(s, d) ==
    CASE RoleOf(s, d) = "markup" ->
           LET out == getMarkupContent(text[d], d.file)
           IN  IF out = NullContent THEN CountCalls(issued'[s], "updateHTML") = 0
               ELSE HasCall(issued'[s], "updateHTML", out)
                      /\ CountCalls(issued'[s], "updateHTML") = 1
      [] RoleOf(s, d) = "stylesheet" ->
           LET out == getStylesheetContent(text[d], d.file)
           IN  IF StylesheetSuspends(text[d], d.file)
               THEN lessPending'[s] = Append(lessPending[s], out)
               ELSE IF out = NullContent THEN CountCalls(issued'[s], "updateCSS") = 0
               ELSE HasCall(issued'[s], "updateCSS", out)
                      /\ CountCalls(issued'[s], "updateCSS") = 1
      [] RoleOf(s, d) = "script" ->
           HasCall(issued'[s], "updateJavaScript", [doc |-> d, text |-> text[d]])
      [] RoleOf(s, d) = "manifest" ->
           HasCall(issued'[s], "updateManifest", text[d])
      [] OTHER -> TRUE

\* C1: at most one session is live at any time.
C1_SingleActiveSession ==
    Cardinality({s \in Sessions : Live(s)}) <= 1

\* C2: once openPlayground has returned and the preview panel is disposed,
\* the session is Idle: listeners disposed, timer cancelled, console
\* released, activePlayground not this session.
C2_DisposalCompletes ==
    \A s \in Sessions : (pc[s] = "done" /\ panel[s] = "disposed") => Idle(s)

\* C3: a burst of two or more change events on one role document is
\* dispatched exactly once, when the timer fires, and what is dispatched is
\* the text of the document's last edit.
C3_DebounceCoalescing ==
    /\ [](\A s \in Sessions :
            /\ burst[s].runs <= 1
            /\ debounced[s].timer => burst[s].runs = 0
            /\ (~debounced[s].timer /\ burst[s].events > 0) => burst[s].runs = 1)
    /\ [][\A s \in Sessions : \A d \in Docs :
            (FireStep(s) /\ burst[s].events = 2 /\ burst[s].docs = {d}
               /\ RoleOf(s, d) # "none")
            => Dispatched(s, d)]_vars

C3_Witness ==
    \E s \in Sessions : \E d \in Docs :
        /\ burst[s] = [events |-> 2, runs |-> 1, docs |-> {d}]
        /\ RoleOf(s, d) = "markup"
        /\ issued[s] # <<>>
        /\ issued[s][1].by = "change"
        /\ issued[s][1].arg = getMarkupContent(text[d], d.file)

\* C4: when the timer fires, every role document that changed in the burst
\* is dispatched with its current text; no role's change is dropped.
C4_PerRoleIndependence ==
    [][\A s \in Sessions : \A d \in Docs :
          (FireStep(s) /\ d \in burst[s].docs /\ RoleOf(s, d) # "none")
          => Dispatched(s, d)]_vars

\* C5: no call is made on a session's webview by its change or save handler
\* once its preview panel is disposed.
C5_NoUpdateAfterDisposal ==
    \A s \in Sessions : \A i \in DOMAIN issued[s] :
        issued[s][i].by \in {"change", "save"} => ~issued[s][i].late

\* C6: no call of openPlayground is rejected because of the manifest.
C6_MalformedManifestNeverBlocks ==
    \A s \in Sessions : pc[s] # "failed"

\* C7: a markup or stylesheet change whose adapter returns null makes no
\* call and leaves every layer as it was; a successful one patches its layer.
C7_TranspileFailureSuppressed ==
    /\ [][\A s \in Sessions :
            (FireStep(s) /\ RoleOf(s, debounced[s].args) \in {"markup", "stylesheet"})
            => LET d == debounced[s].args
                   out == IF RoleOf(s, d) = "markup"
                          THEN getMarkupContent(text[d], d.file)
                          ELSE getStylesheetContent(text[d], d.file)
                   op == IF RoleOf(s, d) = "markup" THEN "updateHTML" ELSE "updateCSS"
               IN  IF out = NullContent \/ StylesheetSuspends(text[d], d.file)
                   THEN issued'[s] = <<>> /\ layers'[s] = layers[s]
                   ELSE layers'[s] = [layers[s] EXCEPT ![op] = out]]_vars
    /\ [][\A s \in Sessions : \A i \in DOMAIN lessPending[s] :
            lessPending'[s] = RemoveAt(lessPending[s], i)
            => IF lessPending[s][i] = NullContent
               THEN issued'[s] = <<>> /\ layers'[s] = layers[s]
               ELSE layers'[s] = [layers[s] EXCEPT !["updateCSS"] = lessPending[s][i]]]_vars

C7_Witness ==
    \E s \in Sessions : \E d \in Docs :
        /\ burst[s].runs = 1
        /\ burst[s].docs = {d}
        /\ RoleOf(s, d) = "markup"
        /\ getMarkupContent(text[d], d.file) = NullContent
        /\ issued[s] = <<>>
        /\ layers[s]["updateHTML"] = [t |-> "b", by |-> "pug"]

\* C8: a manifest change patches the manifest layer, then the JS layer when
\* a script document is open, and the handler does not throw.
C8_ManifestChange ==
    [][\A s \in Sessions :
          (FireStep(s) /\ RoleOf(s, debounced[s].args) = "manifest")
          => LET d == debounced[s].args
                 c == closure[s]
             IN  /\ handlerError'[s] = handlerError[s]
                 /\ Len(issued'[s]) >= 1
                 /\ issued'[s][1].op = "updateManifest"
                 /\ issued'[s][1].arg = text[d]
                 /\ IF c.jsDocument = NoDoc
                    THEN Len(issued'[s]) = 1
                    ELSE /\ Len(issued'[s]) = 2
                         /\ issued'[s][2].op = "updateJavaScript"]_vars

\* C9: a change event for a script document that the bundle does not hold
\* yet (a rename) moves the script entry to the new name, pushes one manifest
\* update and patches the JS layer; an event for a script document the bundle
\* holds migrates nothing and pushes no manifest update.
C9_ScriptRenameMigration ==
    [][\A s \in Sessions :
          (FireStep(s) /\ RoleOf(s, debounced[s].args) = "script"
             /\ closure[s].jsDocument # NoDoc)
          => LET d == debounced[s].args
                 g == closure[s].gist
                 old == getGistFileOfType(files[g], "script")
             IN  IF HasFile(files[g], d.file) \/ old = "undefined"
                 THEN /\ files'[g] = files[g]
                      /\ CountCalls(issued'[s], "updateManifest") = 0
                 ELSE /\ HasFile(files'[g], d.file)
                      /\ ~HasFile(files'[g], old)
                      /\ FileOf(files'[g], d.file).content = FileOf(files[g], old).content
                      /\ CountCalls(issued'[s], "updateManifest") = 1
                      /\ issued'[s][Len(issued'[s])].op = "updateJavaScript"]_vars

NoDuplicates(seq) == \A i, j \in DOMAIN seq : seq[i] = seq[j] => i = j

\* C10: of two calls of getManifestContent in a row on the same files of a
\* gist, the second returns the content of the first, without duplicate
\* scripts, and issues no write-back.
C10_InjectionIdempotent ==
    \A g \in Gists :
        (/\ Len(resolved[g]) = 2
         /\ ~resolved[g][1].threw
         /\ ~resolved[g][2].threw
         /\ resolved[g][1].keys = resolved[g][2].keys)
        => /\ resolved[g][2].content = resolved[g][1].content
           /\ IsJson(resolved[g][2].content)
                => NoDuplicates(resolved[g][2].content.json.scripts)
           /\ ~resolved[g][2].wrote

\* the libraries of REACT_SCRIPTS a script list lacks, in their order
Missing(scripts) == SelectSeq(REACT_SCRIPTS, LAMBDA x : ~Includes(scripts, x))

\* the step is a call of openPlayground by s that got past getManifestContent
OpenStep(s) == pc[s] = "unused" /\ pc'[s] = "opening"

\* C11: openPlayground on a bundle with a component file and a manifest whose
\* script list lacks react or react-dom resolves the manifest to the list
\* followed by the missing libraries, without duplicates, and issues exactly
\* one write-back of it; without such a file, or with both libraries listed,
\* the manifest is returned as it is and nothing is written; without a
\* manifest file the result is the empty string.
C11_AutoInjectionResult ==
    [][\A s \in Sessions :
          OpenStep(s)
          => LET g == closure'[s].gist
                 gistFiles == files[g]
                 out == closure'[s].manifestContent
             IN  IF ~HasFile(gistFiles, PLAYGROUND_FILE)
                 THEN out = Blank /\ writes' = writes
                 ELSE LET m == FileOf(gistFiles, PLAYGROUND_FILE).content
                      IN  IF /\ \E i \in DOMAIN gistFiles :
                                    extname(gistFiles[i].filename) \in {".babel", ".jsx", ".tsx"}
                             /\ ~({"react", "react-dom"} \subseteq Range(m.json.scripts))
                          THEN /\ IsJson(out)
                               /\ out.indent = 2
                               /\ out.json = [m.json EXCEPT
                                     !.scripts = m.json.scripts \o Missing(m.json.scripts)]
                               /\ NoDuplicates(out.json.scripts)
                               /\ writes' = Append(writes, [gist |-> g, content |-> out])
                          ELSE out = m /\ writes' = writes]_vars

C11_Witness ==
    \E s \in Sessions :
        /\ pc[s] = "opening"
        /\ HasFile(files[closure[s].gist], "script.jsx")
        /\ HasFile(files[closure[s].gist], PLAYGROUND_FILE)
        /\ FileOf(files[closure[s].gist], PLAYGROUND_FILE).content
              = Json([scripts |-> <<"lodash">>])
        /\ closure[s].manifestContent
              = JSON_stringify([scripts |-> <<"lodash", "react", "react-dom">>])
        /\ writes = <<[gist |-> closure[s].gist, content |-> closure[s].manifestContent]>>

\* the script list of a manifest text (empty when it has none)
ScriptsOf(content) ==
    IF IsJson(content) /\ "scripts" \in DOMAIN content.json
    THEN Range(content.json.scripts) ELSE {}

\* C12: a manifest write-back that reaches the store never removes what the
\* store's manifest held: the libraries the user added are kept together
\* with the injected ones.
C12_WriteBackLosesNoUpdate ==
    [][\A g \in Gists :
          (writes # <<>> /\ writes' = Tail(writes) /\ Head(writes).gist = g
             /\ HasFile(files[g], PLAYGROUND_FILE))
          => ScriptsOf(FileOf(files[g], PLAYGROUND_FILE).content)
                \subseteq ScriptsOf(FileOf(files'[g], PLAYGROUND_FILE).content)]_vars

\* the names of the calls of a log, in order
Ops(log) == [i \in DOMAIN log |-> log[i].op]

\* what openPlayground pushes after the stylesheet: CSS, JS if there is a
\* script document, then the rebuild
RestOps(c) ==
    <<"updateCSS">>
      \o (IF c.jsDocument # NoDoc THEN <<"updateJavaScript">> ELSE <<>>)
      \o <<"rebuildWebview">>

\* C13: openPlayground pushes manifest, HTML, CSS, JS (if a script document
\* exists) and then rebuilds, each once and in this order, and the change
\* handler of the session makes no call between the manifest push and the
\* rebuild.
C13_InitialRenderOrder ==
    /\ [][\A s \in Sessions :
            /\ (pc[s] = "opening" /\ pc'[s] = "rebuild")
                 => Ops(issued'[s]) = <<"updateManifest", "updateHTML">> \o RestOps(closure'[s])
            /\ (pc[s] = "opening" /\ pc'[s] = "css")
                 => Ops(issued'[s]) = <<"updateManifest", "updateHTML">>
            /\ (pc[s] = "css" /\ pc'[s] = "rebuild")
                 => Ops(issued'[s]) = RestOps(closure'[s])]_vars
    /\ [](\A s \in Sessions :
            pc[s] = "css" => \A i \in DOMAIN issued[s] : issued[s][i].by # "change")

\* the layers a change event of a role may update
LayersOf(role) ==
    CASE role = "markup" -> {"updateHTML"}
      [] role = "stylesheet" -> {"updateCSS"}
      [] role = "script" -> {"updateJavaScript", "updateManifest"}
      [] role = "manifest" -> {"updateManifest", "updateJavaScript"}
      [] OTHER -> {}

\* the calls of log are updates of the layers of L only, and no other layer
\* of s changes in the step
OnlyLayers(s, L) ==
    /\ \A i \in DOMAIN issued'[s] : issued'[s][i].op \in L
    /\ \A op \in LayerOps \ L : layers'[s][op] = layers[s][op]

\* C14: rebuildWebview is called only at the end of openPlayground, by the
\* run command on the active playground, and by a save in onSave mode; a
\* change event calls only the updates of its role's layers (the manifest
\* only on a rename, for a script) and leaves the other layers as they were.
C14_RebuildOnlyOnOpenRunSave ==
    [][\A s \in Sessions :
          /\ \A i \in DOMAIN issued'[s] :
                issued'[s][i].op = "rebuildWebview"
                => \/ /\ issued'[s][i].by = "open"
                      /\ pc[s] \in {"opening", "css"}
                      /\ pc'[s] = "rebuild"
                      /\ i = Len(issued'[s])
                   \/ /\ issued'[s][i].by = "run"
                      /\ activePlayground = s
                   \/ /\ issued'[s][i].by = "save"
                      /\ closure[s].autoRun = "onSave"
          /\ FireStep(s)
                => LET d == debounced[s].args
                   IN  /\ OnlyLayers(s, LayersOf(RoleOf(s, d)))
                       /\ (RoleOf(s, d) = "script" /\ d = closure[s].jsDocument)
                            => OnlyLayers(s, {"updateJavaScript"})
          /\ lessPending'[s] # lessPending[s] /\ ~FireStep(s)
                => OnlyLayers(s, {"updateCSS"})
          /\ (activePlayground = NoSession /\ activePlayground' = NoSession
                /\ pc' = pc)
                => CountCalls(issued'[s], "rebuildWebview") = 0]_vars

C14_Witness ==
    \E s \in Sessions : \E d \in Docs :
        /\ burst[s].runs = 1
        /\ burst[s].docs = {d}
        /\ RoleOf(s, d) = "script"
        /\ d # closure[s].jsDocument
        /\ Ops(issued[s]) = <<"updateManifest", "updateJavaScript">>
        /\ layers[s]["updateHTML"] = [t |-> "a", by |-> "pug"]

\* C15: in a session opened in onSave mode a save of a document of the
\* active playground's gist rebuilds its preview exactly once, and its change
\* events carry the hint false; in a session opened in onEdit mode a save
\* rebuilds nothing and change events carry the hint true; a save of a
\* document of another gist rebuilds nothing.
C15_OnSaveAutorun ==
    [][\A s \in Sessions :
          /\ \A d \in SavedDocs :
                DocumentSaved(d)
                => /\ (/\ panel[s] = "open"
                       /\ closure[s].autoRun = "onSave"
                       /\ activePlayground # NoSession
                       /\ d.authority = closure[activePlayground].gist)
                        => /\ Len(issued'[s]) = 1
                           /\ issued'[s][1].op = "rebuildWebview"
                   /\ (panel[s] = "open" /\ closure[s].autoRun = "onEdit")
                        => issued'[s] = <<>>
                   /\ (\/ activePlayground = NoSession
                       \/ d.authority # closure[activePlayground].gist)
                        => issued'[s] = <<>>
          /\ \A i \in DOMAIN issued'[s] :
                issued'[s][i].by = "change"
                => issued'[s][i].autorun
                     = IF closure[s].autoRun = "onEdit" THEN "true" ELSE "false"]_vars

C15_Witness ==
    \E s \in Sessions :
        /\ panel[s] = "open"
        /\ closure[s].autoRun = "onSave"
        /\ activePlayground = s
        /\ Len(issued[s]) = 1
        /\ issued[s][1].op = "rebuildWebview"
        /\ issued[s][1].by = "save"

\* C16: the auto-save timer of a session runs exactly if, at open, auto-save
\* was enabled, the gist is the user's own and files.autoSave is not
\* afterDelay; at most one timer runs; no timer runs for a session whose
\* preview panel is disposed.
C16_AutoSaveTimer ==
    /\ \A s \in Sessions :
          (pc[s] = "done" /\ panel[s] = "open")
          => (autoSaveInterval[s] <=> StartsAutoSave(closure[s].gist))
    /\ Cardinality({s \in Sessions : autoSaveInterval[s]}) <= 1
    /\ \A s \in Sessions : autoSaveInterval[s] => panel[s] = "open"

\* the session has called openPlayground and got past getManifestContent
Planned(s) == pc[s] \notin {"unused", "failed"}

\* the session has opened its documents and created its preview panel
Shows(s) == pc[s] \notin {"unused", "failed", "opening"}

\* the number of roles of the session that resolved to a file
RoleCount(s) ==
    Cardinality({r \in {"markup", "stylesheet", "script"} :
        getGistFileOfType(files[closure[s].gist], r) # "undefined"})

\* the plan the claim names for a number of files and a preference
NamedPlan(count, pref) ==
    IF count = 3 /\ pref = "grid" THEN EditorLayouts.grid
    ELSE IF count = 3 THEN EditorLayouts.splitThree
    ELSE IF count = 2 THEN EditorLayouts.splitTwo
    ELSE EditorLayouts.splitOne

\* C17: the layout planned is the grid exactly for three files under grid,
\* splitThree for three files otherwise, splitTwo for two, splitOne for one
\* or none; the preference is the manifest's layout if it has one, else the
\* configured one; splitTop changes only the orientation, to vertical;
\* preview sets no editor layout and shows no editor.
C17_LayoutSelection ==
    \A s \in Sessions :
        Planned(s)
        => LET c == closure[s]
               m == c.manifest
               pref == IF "layout" \in DOMAIN m THEN m.layout ELSE config.layout
               named == NamedPlan(RoleCount(s), pref)
           IN  /\ (c.editorLayout = EditorLayouts.grid)
                    <=> (RoleCount(s) = 3 /\ pref = "grid")
               /\ pref \notin {"splitRight", "splitTop"} => c.editorLayout = named
               /\ pref = "splitTop"
                    => /\ c.editorLayout.groups = named.groups
                       /\ c.editorLayout.orientation = EditorLayoutOrientation.vertical
               /\ pref = "splitRight"
                    => /\ c.editorLayout.orientation = named.orientation
                       /\ Range(c.editorLayout.groups) = Range(named.groups)
               /\ Shows(s)
                    => /\ c.layoutSet <=> pref # "preview"
                       /\ pref = "preview"
                            => /\ c.columns.markup = 0
                               /\ c.columns.stylesheet = 0
                               /\ c.columns.script = 0

C17_Witness ==
    \E s \in Sessions :
        /\ Shows(s)
        /\ RoleCount(s) = 3
        /\ "layout" \in DOMAIN closure[s].manifest
        /\ closure[s].manifest.layout = "grid"
        /\ config.layout # "grid"
        /\ closure[s].editorLayout = EditorLayouts.grid
        /\ closure[s].layoutSet

\* the view columns of the editors of the session, in the order markup,
\* stylesheet, script, absent roles left out
EditorColumns(s) ==
    LET c == closure[s]
    IN  (IF c.markupFile # "undefined" THEN <<c.columns.markup>> ELSE <<>>)
          \o (IF c.stylesheetFile # "undefined" THEN <<c.columns.stylesheet>> ELSE <<>>)
          \o (IF c.scriptFile # "undefined" THEN <<c.columns.script>> ELSE <<>>)

\* C18: unless the preference is preview, the editors get consecutive view
\* columns in the order markup, stylesheet, script and the preview a column
\* of its own: columns 1..N and N+1, or, under splitRight, columns 2..N+1
\* and 1 with the top-level groups of the plan reversed.
C18_PaneAssignment ==
    \A s \in Sessions :
        (Shows(s) /\ closure[s].playgroundLayout # "preview")
        => LET c == closure[s]
               N == RoleCount(s)
               right == c.playgroundLayout = "splitRight"
               first == IF right THEN 2 ELSE 1
           IN  /\ EditorColumns(s) = [i \in 1 .. N |-> first + i - 1]
               /\ c.columns.preview = IF right THEN 1 ELSE N + 1
               /\ c.columns.preview \notin Range(EditorColumns(s))
               /\ right => c.editorLayout.groups
                             = Reverse(NamedPlan(N, c.playgroundLayout).groups)

C18_Witness ==
    \E s \in Sessions :
        /\ Shows(s)
        /\ closure[s].playgroundLayout = "splitRight"
        /\ closure[s].markupFile # "undefined"
        /\ closure[s].stylesheetFile = "undefined"
        /\ closure[s].scriptFile # "undefined"
        /\ closure[s].columns = [markup |-> 2, stylesheet |-> 0, script |-> 3, preview |-> 1]

\* the file of the bundle whose extension comes first in the role's ordered
\* extension set, "undefined" when no file of the bundle qualifies
FirstByExtension(gistFiles, fileType) ==
    LET names == fileCandidates(fileType)
        hits == {i \in DOMAIN names : HasFile(gistFiles, names[i])}
    IN  IF hits = {} THEN "undefined"
        ELSE names[CHOOSE i \in hits : \A j \in hits : i <= j]

\* C19: each role resolves to the file of the bundle named by the role's
\* base name and the first extension of the role's ordered set that the
\* bundle has, whatever the order of the files, and to nothing when the
\* bundle has no such file.
C19_RoleResolution ==
    \A s \in Sessions :
        Planned(s)
        => LET gistFiles == files[closure[s].gist]
           IN  /\ closure[s].markupFile = FirstByExtension(gistFiles, "markup")
               /\ closure[s].stylesheetFile = FirstByExtension(gistFiles, "stylesheet")
               /\ closure[s].scriptFile = FirstByExtension(gistFiles, "script")

\* the last call of getScriptContent, when one was made
ScriptCall == layers[1]["updateJavaScript"]

ScriptCalled == "content" \in DOMAIN ScriptCall

ListsReact(manifest) ==
    "scripts" \in DOMAIN manifest /\ "react" \in Range(manifest.scripts)

\* C20: a blank script document is returned as is; a non-blank one is
\* returned unchanged exactly when its extension is .js or .mjs and the
\* manifest does not list "react"; otherwise it is transpiled, with JSX
\* lowering exactly when the manifest lists "react" or the extension is
\* .babel, .jsx or .tsx, and a transpiler exception yields null.
C20_ScriptAdapterDispatch ==
    ScriptCalled
    => LET r == ScriptCall
           ext == extname(r.doc.file)
           passes == ext \in {".js", ".mjs"} /\ ~ListsReact(r.manifest)
           lowers == ListsReact(r.manifest) \/ ext \in {".babel", ".jsx", ".tsx"}
       IN  IF r.text.t \in {"", " "}
           THEN r.content = r.text
           ELSE /\ (r.content = r.text) <=> passes
                /\ ~passes
                   => IF r.text.t = "!"
                      THEN r.content = NullContent
                      ELSE /\ r.content # NullContent
                           /\ r.content.by = "typescript"
                           /\ r.content.t = r.text.t
                           /\ r.content.jsx = lowers

\* a .ts document transpiled with JSX lowering because the manifest lists react
C20_Witness ==
    /\ ScriptCalled
    /\ extname(ScriptCall.doc.file) = ".ts"
    /\ ListsReact(ScriptCall.manifest)
    /\ ScriptCall.text = Src("a")
    /\ ScriptCall.content = Transpile(Src("a"), [jsx |-> TRUE])

\* the manifest of every newGist call made since the last command has unique
\* scripts: react and react-dom when the script file is a React file, none otherwise
GeneratedManifestsClean ==
    \A i \in DOMAIN created :
        created[i].op = "newGist"
        => LET gistFiles == created[i].files
               manifest == FileOf(gistFiles, PLAYGROUND_FILE).content.json
           IN  /\ Cardinality(Range(manifest.scripts)) = Len(manifest.scripts)
               /\ manifest.scripts = IF includesReactFiles(gistFiles)
                                     THEN <<"react", "react-dom">> ELSE <<>>

\* C21: however many playgrounds were created without a template, and with
\* whatever script language, DEFAULT_MANIFEST is {scripts: [], styles: []} and
\* each generated manifest lists react and react-dom, once each, when the
\* script file is component-templated, and no script otherwise.
C21_GeneratedManifestsStayClean ==
    /\ DEFAULT_MANIFEST = [scripts |-> <<>>, styles |-> <<>>]
    /\ GeneratedManifestsClean

\* the sessions openPlayground has opened (the call was not rejected)
Opened == {s \in Sessions : pc[s] \notin {"unused", "failed"}}

\* s is the most recently opened session
Newest(s) == s \in Opened /\ \A r \in Opened : r <= s

\* the onDidDispose handler of r runs in the step
DisposalHandled(r) == onDidDispose[r] /\ panel[r] = "open" /\ panel'[r] = "disposed"

\* C22: whenever the most recently opened session has finished opening and
\* its preview panel is not disposed, activePlayground is that session; and a
\* step in which only disposal handlers of older sessions run, the newest
\* session's panel staying open, leaves activePlayground, store.activeGist
\* and the in-playground context as they were.
C22_ActivePointerFollowsNewest ==
    /\ [](\A s \in Sessions :
            (Newest(s) /\ pc[s] = "done" /\ panel[s] = "open")
            => activePlayground = s)
    /\ [][\A s \in Sessions :
            (/\ Newest(s)
             /\ panel[s] = "open"
             /\ panel'[s] = "open"
             /\ pc'[s] = pc[s]
             /\ \E r \in Sessions : r < s /\ DisposalHandled(r))
            => /\ activePlayground' = activePlayground
               /\ storeActiveGist' = storeActiveGist
               /\ inPlayground' = inPlayground]_vars

\* the script document session s tracks names a file its gist has
TracksScriptFile(s) ==
    closure[s].jsDocument # NoDoc
    => HasFile(files[closure[s].gist], closure[s].jsDocument.file)

\* C23: the script document an Active session tracks is a file of its gist
\* under its present name, also after a rename was handled; a manifest change
\* re-patches the JS layer from that document; a change of a script document
\* whose file the gist already has under that name migrates nothing and
\* pushes no manifest.
C23_TrackedScriptFollowsRename ==
    /\ [](\A s \in Sessions : pc[s] = "done" => TracksScriptFile(s))
    /\ [][\A s \in Sessions :
            (FireStep(s) /\ RoleOf(s, debounced[s].args) = "manifest")
            => \A i \in DOMAIN issued'[s] :
                  issued'[s][i].op = "updateJavaScript"
                  => HasFile(files[closure[s].gist], issued'[s][i].arg.doc.file)]_vars
    /\ [][\A s \in Sessions :
            (/\ FireStep(s)
             /\ RoleOf(s, debounced[s].args) = "script"
             /\ HasFile(files[closure[s].gist], debounced[s].args.file))
            => /\ files' = files
               /\ CountCalls(issued'[s], "updateManifest") = 0]_vars

\* the last accept has been handled to its end
AcceptHandled ==
    /\ created # <<>>
    /\ created[1].op = "accept"
    /\ creating.at = "idle"
    /\ ~quickPick.shown

\* the creation calls made for the last accept
CallsOf(op) == {i \in DOMAIN created : created[i].op = op}

\* C24: the picker shows the templates sorted by label and then, last, the
\* "continue without a template" item; an accept of that item makes at most
\* one newGist call (one when a description was given) and no duplicateGist
\* call; an accept of a template makes the one duplicateGist call of that
\* template's gist and no newGist call.
C24_TemplateChoiceOutcome ==
    /\ quickPick.shown
       => LET items == quickPick.items
              n == Len(items)
          IN  /\ n >= 1
              /\ items[n] = NO_TEMPLATE_GIST_ITEM
              /\ \A i \in 1 .. n - 1 : items[i].label # NO_TEMPLATE_GIST_ITEM.label
              /\ \A i, j \in 1 .. n - 1 :
                    i < j => localeCompare(items[i].label, items[j].label) <= 0
    /\ AcceptHandled
       => LET template == quickPick.items[created[1].item]
          IN  IF template = NO_TEMPLATE_GIST_ITEM
              THEN /\ CallsOf("duplicateGist") = {}
                   /\ Cardinality(CallsOf("newGist")) <= 1
              ELSE /\ CallsOf("newGist") = {}
                   /\ Cardinality(CallsOf("duplicateGist")) = 1
                   /\ \A i \in CallsOf("duplicateGist") :
                         created[i].gist = template.gist

====
